---- MODULE Spec2Model ----
(***************************************************************************)
(* A model of dask_mongo/core.py: the read side (read_mongo planning the   *)
(* partitions of a collection, fetch_mongo reading one partition), the     *)
(* connection cache (_FrozenKwargs, _cache_inner, _get_client) and the     *)
(* write side (write_mongo, to_mongo).                                     *)
(*                                                                         *)
(* Documents are identified with their _id.  An _id is an ObjectId, which  *)
(* is modelled as a positive integer (ObjectIds are totally ordered and    *)
(* always truthy); 0 stands for "no value" (None / an unbound local).      *)
(* A match filter is modelled by the set of _ids of the documents it       *)
(* admits.                                                                 *)
(***************************************************************************)
EXTENDS Integers, Sequences, FiniteSets, TLC

VARIABLES
    coll,       \* read side: the _ids of the documents in the collection
    est,        \* read side: what coll.estimated_document_count() answers
    bag,        \* read side: <<>> or <<b>>, b the Bag the latest read_mongo call
                \* returned (or the error it raised)
    fetched,    \* read side: per task of that Bag, the result of running it
    graphs,     \* read side: the Bags handed to the execution engine so far
    cache,      \* cache: lru_cache's entries [key, client], least recently used first
    pc,         \* cache: per thread, where it is in _get_client ("idle", "miss")
    pending,    \* cache: per thread, the kwargs of the call it is in
    began,      \* cache: per thread, how many calls had returned when its call began
    log,        \* cache: the _get_client calls that returned: [kwargs, client, began]
    closeCalls, \* cache: per client opened, how many times close() was called on it
    hooks,      \* cache: the atexit hooks registered (the client each refers to)
    exited,     \* cache: whether the process has run its exit hooks
    heap,       \* write: the dict objects, by address
    partitions, \* write: the input Bag's partitions, each a list of addresses
    orig,       \* write: the caller's documents as they were before the write
    written,    \* write: per partition, "todo", "done" or the error raised
    insertCalls,\* write: per partition, the insert_many calls issued
    target,     \* write: the documents in the target collection
    nextOid     \* write: the next ObjectId the driver generates

readVars == <<coll, est, bag, fetched, graphs>>

cacheVars == <<cache, pc, pending, began, log, closeCalls, hooks, exited>>

writeVars == <<heap, partitions, orig, written, insertCalls, target, nextOid>>

vars == <<coll, est, bag, fetched, graphs,
          cache, pc, pending, began, log, closeCalls, hooks, exited,
          heap, partitions, orig, written, insertCalls, target, nextOid>>

-----------------------------------------------------------------------------
(* Bounds of the model *)

MaxId == 4          \* _ids range over 1..MaxId
MaxChunk == 3       \* chunksize ranges over 1..MaxChunk
MaxGraphs == 2      \* graphs handed to the execution engine in one behaviour

MaxThreads == 2     \* threads calling _get_client
MaxClientCalls == 3 \* _get_client calls in one behaviour
MaxParts == 2       \* partitions of the Bag to_mongo writes
MaxDocs == 2        \* documents per partition of that Bag

Ids == 1..MaxId

Threads == 1..MaxThreads

\* ObjectIds the driver generates are above every _id a caller supplies
FirstOid == MaxId + 1

None == 0

\* The match filters a call may pass: {} (admits everything), a filter on
\* _id, and a filter on another field (here: the documents with an even _id).
MatchAll == Ids
MatchTail == {i \in Ids : i > 1}
MatchEven == {i \in Ids : i % 2 = 0}
Filters == {MatchAll, MatchTail, MatchEven}

-----------------------------------------------------------------------------
(* Helpers: the database's answers *)

SetMin(S) == CHOOSE x \in S : \A y \in S : x <= y

RECURSIVE SortedSeq(_)
\* .sort("_id", 1): the elements of S in ascending order
SortedSeq(S) ==
    IF S = {} THEN <<>> ELSE <<SetMin(S)>> \o SortedSeq(S \ {SetMin(S)})

\* the documents of the collection that `match` admits
Matched(match) == coll \cap match

\* int(ceil(nrows / chunksize))
Ceil(nrows, chunksize) == (nrows + chunksize - 1) \div chunksize

\* truthiness of a Python value that is None or an ObjectId
Truthy(x) == x # None

-----------------------------------------------------------------------------
(* read_mongo: the paginated scan *)

\* the boundary test without its `idx > 0` guard
IsBoundaryAtZero(idx, chunksize) == idx % chunksize = 0

\* `idx % chunksize == 0 and idx > 0`: document idx opens a new partition
IsBoundary(idx, chunksize) == idx % chunksize = 0 /\ idx > 0

RECURSIVE Scan(_, _, _, _, _)
\* The loop `for idx, doc in enumerate(cursor)`, from index idx on (idx is
\* 0-based as in the code; the cursor is a 1-based sequence).  st holds the
\* locals prev_id, doc and partitions_ids.
Scan(cursor, idx, nrows, chunksize, st) ==
    IF idx >= Len(cursor) THEN st
    ELSE LET doc == cursor[idx + 1] IN
         IF idx >= nrows THEN [st EXCEPT !.doc = doc]
         ELSE IF IsBoundary(idx, chunksize)
              THEN Scan(cursor, idx + 1, nrows, chunksize,
                        [prev_id |-> doc, doc |-> doc,
                         parts |-> Append(st.parts,
                                          [min |-> st.prev_id, max |-> doc])])
              ELSE Scan(cursor, idx + 1, nrows, chunksize,
                        [st EXCEPT !.doc = doc])

\* The `if paginate_partition_ids:` branch: [raised, parts]
PaginatedIds(match, nrows, chunksize) ==
    IF coll = {}
    THEN [raised |-> "TypeError", parts |-> <<>>]   \* find_one() is None
    ELSE LET st0 == [prev_id |-> SetMin(coll), doc |-> None, parts |-> <<>>]
             st == Scan(SortedSeq(Matched(match)), 0, nrows, chunksize, st0)
         IN  IF ~Truthy(st.prev_id)
             THEN [raised |-> "", parts |-> st.parts]
             ELSE IF st.doc = None
                  THEN [raised |-> "UnboundLocalError", parts |-> <<>>]
                  ELSE [raised |-> "",
                        parts |-> Append(st.parts,
                                         [min |-> st.prev_id, max |-> st.doc])]

-----------------------------------------------------------------------------
(* read_mongo: the database's $bucketAuto *)

\* round(n / b), halves away from zero, and at least 1: the number of
\* documents the server puts in each bucket but the last
ApproxBucketSize(n, b) ==
    LET r == (2 * n + b) \div (2 * b) IN IF r < 1 THEN 1 ELSE r

RECURSIVE Buckets(_, _, _, _)
\* The buckets from document `start` of the sorted ids on, the next bucket
\* being the k-th of at most b.  A bucket's max is the next bucket's min
\* (exclusive), the last bucket's max is the last value (inclusive).
Buckets(ids, start, k, b) ==
    IF start > Len(ids) THEN <<>>
    ELSE LET size == ApproxBucketSize(Len(ids), b)
             stop == IF k = b \/ start + size - 1 >= Len(ids)
                     THEN Len(ids) ELSE start + size - 1
             max == IF stop < Len(ids) THEN ids[stop + 1] ELSE ids[stop]
         IN  <<[min |-> ids[start], max |-> max]>>
             \o Buckets(ids, stop + 1, k + 1, b)

\* The `else:` branch: [{"$match": match}, {"$bucketAuto": {groupBy: "$_id",
\* buckets: npartitions}}].  The server rejects buckets <= 0.
BucketAutoIds(match, npartitions) ==
    IF npartitions < 1
    THEN [raised |-> "OperationFailure", parts |-> <<>>]
    ELSE [raised |-> "",
          parts |-> Buckets(SortedSeq(Matched(match)), 1, 1, npartitions)]

-----------------------------------------------------------------------------
(* read_mongo and fetch_mongo *)

\* "read_mongo-" + tokenize(common_args, chunksize): a digest of the match
\* filter and the chunk size (connection, database and collection are the
\* same in every call of the model), and of nothing else
Tokenize(match, chunksize) == [match |-> match, chunksize |-> chunksize]

\* The count read_mongo plans with: [raised, nrows].  next() of the $count
\* aggregation raises StopIteration when no document matches.
CountRows(match, use_estimated_count) ==
    IF use_estimated_count THEN [raised |-> "", nrows |-> est]
    ELSE IF Matched(match) = {}
         THEN [raised |-> "StopIteration", nrows |-> 0]
         ELSE [raised |-> "", nrows |-> Cardinality(Matched(match))]

\* task i (0-based in the code, 1-based here) of the graph
Task(parts, i) ==
    [id_min |-> parts[i].min, id_max |-> parts[i].max,
     include_last |-> (i = Len(parts))]

\* What a read_mongo call returns or raises
ReadMongo(match, chunksize, use_estimated_count, paginate_partition_ids) ==
    LET args == [match |-> match, chunksize |-> chunksize,
                 use_estimated_count |-> use_estimated_count,
                 paginate_partition_ids |-> paginate_partition_ids]
        cnt == CountRows(match, use_estimated_count)
        failed(e) == [args |-> args, raised |-> e,
                      name |-> Tokenize(match, chunksize),
                      dsk |-> <<>>, npartitions |-> 0]
    IN  IF cnt.raised # "" THEN failed(cnt.raised)
        ELSE LET npartitions == Ceil(cnt.nrows, chunksize)
                 ids == IF paginate_partition_ids
                        THEN PaginatedIds(match, cnt.nrows, chunksize)
                        ELSE BucketAutoIds(match, npartitions)
             IN  IF ids.raised # "" THEN failed(ids.raised)
                 ELSE [args |-> args, raised |-> "",
                       name |-> Tokenize(match, chunksize),
                       dsk |-> [i \in 1..Len(ids.parts) |-> Task(ids.parts, i)],
                       npartitions |-> Len(ids.parts)]

\* a range filter that takes the upper bound as exclusive in every task
InRangeExclusive(id, id_min, id_max, include_last) ==
    id >= id_min /\ id < id_max

\* {"_id": {"$gte": id_min, "$lte" if include_last else "$lt": id_max}}
InRange(id, id_min, id_max, include_last) ==
    id >= id_min /\ (IF include_last THEN id <= id_max ELSE id < id_max)

\* fetch_mongo: [{"$match": match}, {"$match": match2}]
FetchMongo(match, id_min, id_max, include_last) ==
    {d \in Matched(match) : InRange(d, id_min, id_max, include_last)}

NotRun == [ran |-> FALSE, docs |-> {}]

-----------------------------------------------------------------------------
(* The read side as a state machine *)

\* no read has been made
ReadIdle ==
    /\ bag = <<>>
    /\ fetched = <<>>
    /\ graphs = <<>>

\* no client has been asked for
CacheIdle ==
    /\ cache = <<>>
    /\ pc = [t \in Threads |-> "idle"]
    /\ pending = [t \in Threads |-> <<>>]
    /\ began = [t \in Threads |-> 0]
    /\ log = <<>>
    /\ closeCalls = <<>>
    /\ hooks = <<>>
    /\ exited = FALSE

\* nothing to write
WriteIdle ==
    /\ heap = <<>>
    /\ partitions = <<>>
    /\ orig = <<>>
    /\ written = <<>>
    /\ insertCalls = <<>>
    /\ target = {}
    /\ nextOid = FirstOid

InitRead ==
    /\ coll \in SUBSET Ids
    /\ est \in 0..MaxId
    /\ ReadIdle
    /\ CacheIdle
    /\ WriteIdle

\* A caller calls read_mongo; the Bag it gets replaces the one it had
ReadMongoCall ==
    \E match \in Filters, chunksize \in 1..MaxChunk,
       use_estimated_count \in BOOLEAN, paginate_partition_ids \in BOOLEAN :
        /\ LET b == ReadMongo(match, chunksize, use_estimated_count,
                              paginate_partition_ids)
           IN  /\ bag' = <<b>>
               /\ fetched' = [i \in 1..Len(b.dsk) |-> NotRun]
        /\ UNCHANGED <<coll, est, graphs>>
        /\ UNCHANGED <<cacheVars, writeVars>>

\* The execution engine runs one task of the Bag's graph, in any order
FetchTask ==
    \E i \in 1..Len(fetched) :
        /\ ~fetched[i].ran
        /\ LET t == bag[1].dsk[i] IN
           fetched' = [fetched EXCEPT ![i] =
               [ran |-> TRUE,
                docs |-> FetchMongo(bag[1].args.match, t.id_min, t.id_max,
                                    t.include_last)]]
        /\ UNCHANGED <<coll, est, bag, graphs>>
        /\ UNCHANGED <<cacheVars, writeVars>>

NextRead == ReadMongoCall \/ FetchTask

SpecRead == InitRead /\ [][NextRead]_vars

\* A caller calls read_mongo and hands the Bag to the execution engine, which
\* identifies a graph by its name
ReadMongoSubmit ==
    \E match \in Filters, chunksize \in 1..MaxChunk,
       use_estimated_count \in BOOLEAN, paginate_partition_ids \in BOOLEAN :
        /\ Len(graphs) < MaxGraphs
        /\ LET b == ReadMongo(match, chunksize, use_estimated_count,
                              paginate_partition_ids)
           IN  /\ bag' = <<b>>
               /\ fetched' = [i \in 1..Len(b.dsk) |-> NotRun]
               /\ graphs' = Append(graphs, b)
        /\ UNCHANGED <<coll, est>>
        /\ UNCHANGED <<cacheVars, writeVars>>

NextGraphs == ReadMongoSubmit

SpecGraphs == InitRead /\ [][NextGraphs]_vars

-----------------------------------------------------------------------------
(* Properties of the read side *)

HasBag == bag # <<>>

\* the matched documents of the latest call
BagMatched == Matched(bag[1].args.match)

AllRan == \A i \in 1..Len(fetched) : fetched[i].ran

\* no document is returned by two tasks that have run
NoOverlap ==
    \A i, j \in 1..Len(fetched) :
        (i # j /\ fetched[i].ran /\ fetched[j].ran)
            => fetched[i].docs \cap fetched[j].docs = {}

\* once every task has run, every matched document has been returned
Covered ==
    AllRan => UNION {fetched[i].docs : i \in 1..Len(fetched)} = BagMatched

\* C1: with the exact count and a non-empty matched set, under either
\* strategy, read_mongo returns a graph whose tasks (upper bound inclusive in
\* the last task only) return every matched document exactly once.
C1_ExactlyOnce ==
    (HasBag /\ ~bag[1].args.use_estimated_count /\ BagMatched # {}) =>
        /\ bag[1].raised = ""
        /\ \A i \in 1..Len(bag[1].dsk) :
               bag[1].dsk[i].include_last <=> (i = Len(bag[1].dsk))
        /\ NoOverlap
        /\ Covered

\* C1's case: a filtered read with the exact count whose first matched
\* document is not the first of the collection, split in two or more
\* partitions, all of them fetched
C1_Witness ==
    /\ HasBag
    /\ ~bag[1].args.use_estimated_count
    /\ bag[1].args.match = MatchTail
    /\ 1 \in coll
    /\ Cardinality(BagMatched) >= 3
    /\ Len(fetched) >= 2
    /\ AllRan

\* C2: when no document matches, read_mongo raises nothing and returns a
\* Bag with zero partitions.
C2_EmptyIsNoError ==
    (HasBag /\ BagMatched = {}) =>
        /\ bag[1].raised = ""
        /\ bag[1].npartitions = 0
        /\ bag[1].dsk = <<>>

\* C3: the paginated scan with the exact count over n >= 1 matched documents
\* returns ceil(n/c) partitions; each but the last fetches c documents, the
\* last fetches the remaining n - c*(ceil(n/c) - 1).
C3_PaginatedSizes ==
    (HasBag /\ bag[1].args.paginate_partition_ids
            /\ ~bag[1].args.use_estimated_count /\ BagMatched # {}) =>
        LET n == Cardinality(BagMatched)
            c == bag[1].args.chunksize
            k == (n + c - 1) \div c
        IN  /\ bag[1].raised = ""
            /\ bag[1].npartitions = k
            /\ Len(bag[1].dsk) = k
            /\ \A i \in 1..Len(fetched) :
                   fetched[i].ran =>
                       Cardinality(fetched[i].docs) =
                           IF i < k THEN c ELSE n - c * (k - 1)

\* C3's case: a paginated exact-count read of n documents, c not dividing n,
\* in two or more partitions, all fetched
C3_Witness ==
    /\ HasBag
    /\ bag[1].args.paginate_partition_ids
    /\ ~bag[1].args.use_estimated_count
    /\ bag[1].args.chunksize = 2
    /\ Cardinality(BagMatched) = 3
    /\ Len(fetched) = 2
    /\ AllRan

\* C9: with the estimated count, an estimate >= 1 that differs from the
\* number of matched documents changes only the partitioning: the tasks still
\* return every matched document exactly once (stated for a non-empty
\* matched set).
C9_EstimateKeepsDocuments ==
    (HasBag /\ bag[1].args.use_estimated_count /\ est >= 1
            /\ BagMatched # {} /\ est # Cardinality(BagMatched)) =>
        /\ bag[1].raised = ""
        /\ NoOverlap
        /\ Covered

\* C10: two read_mongo calls that return Bags of the same name return the
\* same graph, whatever use_estimated_count and paginate_partition_ids were.
C10_SameNameSameGraph ==
    \A i, j \in 1..Len(graphs) :
        (graphs[i].raised = "" /\ graphs[j].raised = ""
            /\ graphs[i].name = graphs[j].name) =>
            /\ graphs[i].npartitions = graphs[j].npartitions
            /\ graphs[i].dsk = graphs[j].dsk

-----------------------------------------------------------------------------
(* The connection cache: _FrozenKwargs, _cache_inner, _get_client *)

_CACHE_SIZE == 16

\* Values of a connection configuration.  Every value is a record [t, s, m]:
\* an int n is t = "int", s = <<n>>; a list or tuple of ints is t = "list" or
\* "tuple" with its items in s; a nested dict is t = "dict" with its
\* (key, value) pairs, in insertion order, in m.
IntVal(n) == [t |-> "int", s |-> <<n>>, m |-> <<>>]
ListVal(items) == [t |-> "list", s |-> items, m |-> <<>>]
TupleVal(items) == [t |-> "tuple", s |-> items, m |-> <<>>]
DictVal(pairs) == [t |-> "dict", s |-> <<>>, m |-> pairs]

\* The configurations callers pass: a dict is the sequence of its
\* (key, value) pairs in insertion order.
Configs ==
    { << <<"host", IntVal(1)>>, <<"port", IntVal(2)>> >>,
      << <<"port", IntVal(2)>>, <<"host", IntVal(1)>> >>,
      << <<"opts", DictVal(<< <<"w", 1>>, <<"j", 2>> >>)>> >>,
      << <<"opts", DictVal(<< <<"j", 2>>, <<"w", 1>> >>)>> >>,
      << <<"hosts", ListVal(<<1, 2>>)>> >>,
      << <<"hosts", TupleVal(<<1, 2>>)>> >>,
      << <<"host", IntVal(2)>> >> }

Range(seq) == {seq[i] : i \in 1..Len(seq)}

\* _recursive_tupling: a list becomes the tuple of its items, a mapping the
\* tuple of its (key, value) pairs in items() order, anything else is kept
\* (the items here are ints and strings, which are kept)
RecursiveTupling(v) ==
    IF v.t = "list" THEN [t |-> "tuple", s |-> v.s, m |-> <<>>]
    ELSE IF v.t = "dict" THEN [t |-> "tuple", s |-> <<>>, m |-> v.m]
    ELSE v

\* _FrozenKwargs.__hash__: the hash of the frozenset of the tupled items.
\* The hash is modelled by the frozenset itself: two hashes are equal
\* exactly when the frozensets are.
FrozenHash(kwargs) ==
    {<<kwargs[i][1], RecursiveTupling(kwargs[i][2])>> : i \in 1..Len(kwargs)}

\* == on two values: a list never equals a tuple; dicts compare as mappings
ValEq(x, y) ==
    /\ x.t = y.t
    /\ IF x.t = "dict" THEN Range(x.m) = Range(y.m) ELSE x.s = y.s

\* dict.__eq__, which _FrozenKwargs inherits: same keys, equal values
DictEq(a, b) ==
    /\ {a[i][1] : i \in 1..Len(a)} = {b[j][1] : j \in 1..Len(b)}
    /\ \A i \in 1..Len(a), j \in 1..Len(b) :
           a[i][1] = b[j][1] => ValEq(a[i][2], b[j][2])

\* lru_cache finds an entry when the hashes are equal and the keys ==
KeyMatches(k1, k2) == FrozenHash(k1) = FrozenHash(k2) /\ DictEq(k1, k2)

\* the positions of the cache entries a lookup of kwargs finds
Found(kwargs) == {i \in 1..Len(cache) : KeyMatches(cache[i].key, kwargs)}

\* the sequence without its i-th element
Without(seq, i) == SubSeq(seq, 1, i - 1) \o SubSeq(seq, i + 1, Len(seq))

\* lru_cache stores a result: the least recently used entry goes when full
Stored(entry) ==
    IF Len(cache) >= _CACHE_SIZE THEN Append(Tail(cache), entry)
    ELSE Append(cache, entry)

\* the calls that have begun: returned or in flight
CallsBegun == Len(log) + Cardinality({t \in Threads : pc[t] # "idle"})

\* What the exit hooks do to the clients: each hook is
\* weakref.WeakMethod(client.close), and calling a WeakMethod returns the
\* bound method (or None); it does not call it.
RunExitHooks(calls, registered) == calls

InitCache ==
    /\ coll = {}
    /\ est = 0
    /\ ReadIdle
    /\ CacheIdle
    /\ WriteIdle

\* _get_client(kwargs), the lookup in lru_cache: a hit returns the cached
\* client and makes its entry the most recently used; on a miss the thread
\* goes on to call _cache_inner, and other threads may run meanwhile
GetClientLookup ==
    \E t \in Threads, kwargs \in Configs :
        /\ ~exited
        /\ pc[t] = "idle"
        /\ CallsBegun < MaxClientCalls
        /\ IF Found(kwargs) # {}
           THEN LET i == CHOOSE i \in Found(kwargs) : TRUE IN
                /\ cache' = Append(Without(cache, i), cache[i])
                /\ log' = Append(log, [kwargs |-> kwargs,
                                       client |-> cache[i].client,
                                       began |-> Len(log), opened |-> FALSE])
                /\ UNCHANGED <<pc, pending, began>>
           ELSE /\ pc' = [pc EXCEPT ![t] = "miss"]
                /\ pending' = [pending EXCEPT ![t] = kwargs]
                /\ began' = [began EXCEPT ![t] = Len(log)]
                /\ UNCHANGED <<cache, log>>
        /\ UNCHANGED <<closeCalls, hooks, exited>>
        /\ UNCHANGED <<readVars, writeVars>>

\* _cache_inner(kwargs) after a miss: open a client, register its exit
\* hook, and back in lru_cache store the result unless the key was added
\* during the call; the caller gets the client it opened either way
CacheInner ==
    \E t \in Threads :
        /\ pc[t] = "miss"
        /\ LET client == Len(closeCalls) + 1 IN
           /\ closeCalls' = Append(closeCalls, 0)
           /\ hooks' = Append(hooks, client)
           /\ cache' = IF Found(pending[t]) # {} THEN cache
                       ELSE Stored([key |-> pending[t], client |-> client])
           /\ log' = Append(log, [kwargs |-> pending[t], client |-> client,
                                  began |-> began[t], opened |-> TRUE])
        /\ pc' = [pc EXCEPT ![t] = "idle"]
        /\ pending' = [pending EXCEPT ![t] = <<>>]
        /\ UNCHANGED <<began, exited>>
        /\ UNCHANGED <<readVars, writeVars>>

\* The process exits: the interpreter runs the registered exit hooks
AtExit ==
    /\ ~exited
    /\ \A t \in Threads : pc[t] = "idle"
    /\ closeCalls' = RunExitHooks(closeCalls, hooks)
    /\ exited' = TRUE
    /\ UNCHANGED <<cache, pc, pending, began, log, hooks>>
    /\ UNCHANGED <<readVars, writeVars>>

NextCache == GetClientLookup \/ CacheInner \/ AtExit

SpecCache == InitCache /\ [][NextCache]_vars

-----------------------------------------------------------------------------
(* Properties of the connection cache *)

\* a configuration up to mapping key order and list versus tuple
NormVal(v) ==
    IF v.t = "dict" THEN [kind |-> "map", s |-> <<>>, m |-> Range(v.m)]
    ELSE IF v.t = "int" THEN [kind |-> "int", s |-> v.s, m |-> {}]
    ELSE [kind |-> "seq", s |-> v.s, m |-> {}]

StructEq(a, b) ==
    {<<a[i][1], NormVal(a[i][2])>> : i \in 1..Len(a)}
        = {<<b[j][1], NormVal(b[j][2])>> : j \in 1..Len(b)}

\* C4: of two _get_client calls, the second begun after the first returned,
\* whose configurations are equal up to mapping key order and list versus
\* tuple, the second opens no client and returns the first one's client
\* (no entry is evicted: fewer than _CACHE_SIZE calls are made).
C4_StructEqSameClient ==
    \A i, j \in 1..Len(log) :
        (i < j /\ log[j].began >= i /\ StructEq(log[i].kwargs, log[j].kwargs))
            => (log[j].client = log[i].client /\ ~log[j].opened)

\* C7: once the exit hooks have run, every client opened by _cache_inner
\* has been closed exactly once.
C7_ClosedOnceAtExit ==
    exited => \A c \in 1..Len(closeCalls) : closeCalls[c] = 1

\* C8: _get_client calls with the same configuration, concurrent or not,
\* all return the same client, and at most one of them opens one.
C8_OneClientPerConfig ==
    \A i, j \in 1..Len(log) :
        (i # j /\ log[i].kwargs = log[j].kwargs)
            => (log[i].client = log[j].client
                /\ ~(log[i].opened /\ log[j].opened))

-----------------------------------------------------------------------------
(* The write side: write_mongo, to_mongo *)

\* A document (a dict) is the set of its (key, value) pairs.
HasKey(doc, k) == \E kv \in doc : kv[1] = k

IdOf(doc) == (CHOOSE kv \in doc : kv[1] = "_id")[2]

\* The documents a caller may put in the Bag: some without an "_id", one
\* that brings its own
InputDocs ==
    { {<<"a", 1>>}, {<<"a", 2>>}, {<<"_id", 1>>, <<"a", 1>>} }

RECURSIVE Flatten(_)
\* the documents of all the partitions, in order
Flatten(ps) == IF ps = <<>> THEN <<>> ELSE Head(ps) \o Flatten(Tail(ps))

RECURSIVE Addresses(_, _)
\* the partitions as lists of addresses, the first document at base + 1
Addresses(ps, base) ==
    IF ps = <<>> THEN <<>>
    ELSE <<[i \in 1..Len(Head(ps)) |-> base + i]>>
         \o Addresses(Tail(ps), base + Len(Head(ps)))

\* a write that hands insert_many the caller's own dicts
NotCopied(values, base) == values

\* `values = [copy(v) for v in values]`: the shallow copies are new dicts,
\* allocated at base + 1, base + 2, ...; the result is the new list
Copied(values, base) == [i \in 1..Len(values) |-> base + i]

\* the heap after the copies are allocated
WithCopies(h, values) == h \o [i \in 1..Len(values) |-> h[values[i]]]

RECURSIVE AssignIds(_, _, _)
\* insert_many's generator: a document without "_id" gets a new ObjectId,
\* written into the dict it was given
AssignIds(h, docs, oid) ==
    IF docs = <<>> THEN [heap |-> h, oid |-> oid]
    ELSE IF HasKey(h[Head(docs)], "_id")
         THEN AssignIds(h, Tail(docs), oid)
         ELSE AssignIds([h EXCEPT ![Head(docs)] = @ \cup {<<"_id", oid>>}],
                        Tail(docs), oid + 1)

RECURSIVE BulkInsert(_, _, _)
\* the ordered bulk write: documents go in one by one and the first
\* duplicate _id stops the write with BulkWriteError
BulkInsert(h, docs, into) ==
    IF docs = <<>> THEN [raised |-> "", target |-> into]
    ELSE IF \E d \in into : IdOf(d) = IdOf(h[Head(docs)])
         THEN [raised |-> "BulkWriteError", target |-> into]
         ELSE BulkInsert(h, Tail(docs), into \cup {h[Head(docs)]})

\* coll.insert_many(documents): [raised, heap, target, oid].  The driver
\* raises TypeError("documents must be a non-empty list") for an empty list.
InsertMany(h, docs, into, oid) ==
    IF docs = <<>>
    THEN [raised |-> "TypeError", heap |-> h, target |-> into, oid |-> oid]
    ELSE LET a == AssignIds(h, docs, oid)
             w == BulkInsert(a.heap, docs, into)
         IN  [raised |-> w.raised, heap |-> a.heap, target |-> w.target,
              oid |-> a.oid]

InitWrite ==
    /\ coll = {}
    /\ est = 0
    /\ ReadIdle
    /\ CacheIdle
    /\ \E n \in 1..MaxParts :
          \E ps \in [1..n -> UNION {[1..k -> InputDocs] : k \in 0..MaxDocs}] :
              /\ heap = Flatten(ps)
              /\ orig = Flatten(ps)
              /\ partitions = Addresses(ps, 0)
              /\ written = [p \in 1..n |-> "todo"]
              /\ insertCalls = [p \in 1..n |-> 0]
    /\ target = {}
    /\ nextOid = FirstOid

\* to_mongo maps write_mongo over the partitions of the Bag; the execution
\* engine runs write_mongo on one partition, in any order
WriteMongo ==
    \E p \in 1..Len(partitions) :
        /\ written[p] = "todo"
        /\ LET values == Copied(partitions[p], Len(heap))
               r == InsertMany(WithCopies(heap, partitions[p]), values,
                               target, nextOid)
           IN  /\ heap' = r.heap
               /\ target' = r.target
               /\ nextOid' = r.oid
               /\ written' = [written EXCEPT ![p] =
                                  IF r.raised = "" THEN "done" ELSE r.raised]
        /\ insertCalls' = [insertCalls EXCEPT ![p] = @ + 1]
        /\ UNCHANGED <<partitions, orig>>
        /\ UNCHANGED <<readVars, cacheVars>>

NextWrite == WriteMongo

SpecWrite == InitWrite /\ [][NextWrite]_vars

-----------------------------------------------------------------------------
(* Properties of the write side *)

\* the addresses of the caller's documents
CallerDocs == 1..Len(orig)

\* C5: write_mongo leaves the caller's input as it was: the lists hold the
\* same dict objects and every dict has the keys and values it had, with no
\* "_id" added.
C5_InputUnchanged ==
    /\ partitions = Addresses(partitions, 0)
    /\ UNION {Range(partitions[p]) : p \in 1..Len(partitions)} = CallerDocs
    /\ \A a \in CallerDocs : heap[a] = orig[a]

\* C5's case: a partition holding a document without "_id" has been written,
\* and the document stored got a generated "_id"
C5_Witness ==
    \E p \in 1..Len(partitions) :
        /\ written[p] = "done"
        /\ \E i \in 1..Len(partitions[p]) :
               /\ ~HasKey(orig[partitions[p][i]], "_id")
               /\ \E d \in target :
                      /\ IdOf(d) >= FirstOid
                      /\ d = orig[partitions[p][i]] \cup {<<"_id", IdOf(d)>>}

\* C6: for a partition with zero documents, no insert_many call is issued.
C6_NoInsertForEmpty ==
    \A p \in 1..Len(partitions) :
        (written[p] # "todo" /\ Len(partitions[p]) = 0) => insertCalls[p] = 0

====
